---- MODULE Spec2Model ----
(***************************************************************************)
(* Model of src/src/intoiter.rs: the consuming iterator IntoIter of the    *)
(* Vector container, its address-pair cursor RawValIter, the conversion    *)
(* Vector::into_iter and the teardown IntoIter::drop.                      *)
(*                                                                         *)
(* Addresses are unsigned machine words (usize), scaled down to AddrBits   *)
(* bits; every integer operation on an address wraps modulo AddrSpace.     *)
(* An element is followed through three ledgers indexed by its slot in     *)
(* the storage: inBuf (the storage still logically owns it), held (copies  *)
(* the caller owns after a draw) and drops (destructor runs).              *)
(***************************************************************************)
EXTENDS Integers, Sequences, FiniteSets, TLC

(* ---- bounds of the model ---- *)
MaxLen == 3
SpareCap == 1
AddrBits == 8

AddrSpace == 2 ^ AddrBits

(* sizes of the element type T that are explored: a zero-width type, a    *)
(* one-byte type and a four-byte type                                      *)
ElemSizes == {0, 1, 4}

(* allocators a Vector<T, A> may be parameterised with *)
Allocators == {"Global", "Custom"}

(* addresses an allocation may start at *)
BaseAddrs == {16, 32}

VARIABLES
    phase,        \* "vec" | "iter" | "cleanup" | "release" | "done"
    vec,          \* the source Vector: [ptr, len, cap, size, alloc, elems]
    iter,         \* RawValIter: [start, end]
    allocator,    \* IntoIter.allocator ("none" before the conversion)
    inBuf,        \* slot -> the storage still owns a live element there
    held,         \* slot -> number of copies owned by the caller
    drops,        \* slot -> number of destructor runs
    yielded,      \* sequence of successful draws [val, pos, dir, by]
    lastOp,       \* the last cursor call: "none" | "next" | "next_back"
    lastRet,      \* Option<T> that call returned
    hint,         \* result of the last size_hint, <<lo, hi>>
    released,     \* allocators the storage was released with, in order
    vecTeardown,  \* the Vector's own teardown has run
    iterTeardown, \* IntoIter::drop has been entered
    callerDrops,  \* destructor runs caused by the caller's disposal
    cleanupDraws, \* successful next calls of the cleanup pass
    badRead       \* some read hit a slot that held no live element

vars == <<phase, vec, iter, allocator, inBuf, held, drops, yielded, lastOp,
          lastRet, hint, released, vecTeardown, iterTeardown, callerDrops,
          cleanupDraws, badRead>>

(* ---- values ---- *)
NoValue == 0 - 1
ZstValue == 0
ElemValue(i) == 100 + i
None == [some |-> FALSE, val |-> NoValue, pos |-> NoValue]
Some(v, p) == [some |-> TRUE, val |-> v, pos |-> p]
NoHint == <<NoValue, NoValue>>

WrapAdd(a, b) == (a + b) % AddrSpace
WrapSub(a, b) == (a - b + AddrSpace) % AddrSpace

(* mem::size_of::<T>() *)
size_of == vec.size

(* NonNull::<T>::dangling(): the alignment of T, a non-null aligned address *)
dangling(size) == IF size = 0 THEN 1 ELSE size

Slots == 0 .. (vec.cap - 1)

Bump(f, i) == IF i \in DOMAIN f THEN [f EXCEPT ![i] = @ + 1] ELSE f
Clear(f, i) == IF i \in DOMAIN f THEN [f EXCEPT ![i] = FALSE] ELSE f

(* ptr::read(p) for a nonzero-width T: a bitwise copy of the slot at p *)
ptr_read(p) ==
    LET off == WrapSub(p, vec.ptr)
        slot == off \div size_of
    IN  IF slot \in Slots
        THEN Some(vec.elems[slot], slot)
        ELSE Some(NoValue, slot)

(* ---- RawValIter ---- *)

(* a constructor that offsets the pointer by len elements for every T,    *)
(* the zero-width one included                                             *)
new_offset_for_all(ptr, len) ==
    [start |-> ptr,
     end   |-> IF len = 0
               THEN ptr
               ELSE WrapAdd(ptr, len * size_of)]

(* a constructor that adds len to the address as an integer for every T *)
new_bytes_for_all(ptr, len) ==
    [start |-> ptr,
     end   |-> WrapAdd(ptr, len)]

(* a constructor whose end lies one element past the slice *)
new_one_past(ptr, len) ==
    [start |-> ptr,
     end   |-> IF size_of = 0
               THEN WrapAdd(ptr, len + 1)
               ELSE WrapAdd(ptr, (len + 1) * size_of)]

(* RawValIter::new(slice) *)
new(ptr, len) ==
    [start |-> ptr,
     end   |-> IF size_of = 0
               THEN WrapAdd(ptr, len)
               ELSE IF len = 0
                    THEN ptr
                    ELSE WrapAdd(ptr, len * size_of)]

(* the count position a zero-width draw stands for: the value itself is   *)
(* read from the dangling placeholder and carries no bytes                 *)
zst_read(p) == Some(ZstValue, WrapSub(p, vec.ptr))

(* a next that reads after advancing: the slot at the new start *)
next_reads_new_start(self) ==
    IF self.start = self.end
    THEN [it |-> self, ret |-> None]
    ELSE IF size_of = 0
         THEN [it  |-> [self EXCEPT !.start = WrapAdd(self.start, 1)],
               ret |-> zst_read(self.start)]
         ELSE [it  |-> [self EXCEPT !.start = WrapAdd(self.start, size_of)],
               ret |-> ptr_read(WrapAdd(self.start, size_of))]

(* a next that advances start by one address unit for every T *)
next_steps_one_byte(self) ==
    IF self.start = self.end
    THEN [it |-> self, ret |-> None]
    ELSE IF size_of = 0
         THEN [it  |-> [self EXCEPT !.start = WrapAdd(self.start, 1)],
               ret |-> zst_read(self.start)]
         ELSE LET old_ptr == self.start
              IN  [it  |-> [self EXCEPT !.start = WrapAdd(self.start, 1)],
                   ret |-> ptr_read(old_ptr)]

(* a next that reads the element at start and leaves start where it was *)
next_keeps_start(self) ==
    IF self.start = self.end
    THEN [it |-> self, ret |-> None]
    ELSE IF size_of = 0
         THEN [it |-> self, ret |-> zst_read(self.start)]
         ELSE [it |-> self, ret |-> ptr_read(self.start)]

(* a next without the start == end test *)
next_unguarded(self) ==
    IF size_of = 0
    THEN [it  |-> [self EXCEPT !.start = WrapAdd(self.start, 1)],
          ret |-> zst_read(self.start)]
    ELSE LET old_ptr == self.start
         IN  [it  |-> [self EXCEPT !.start = WrapAdd(self.start, size_of)],
              ret |-> ptr_read(old_ptr)]

(* <RawValIter as Iterator>::next: the cursor after the call and the      *)
(* Option returned                                                         *)
RawValIter_next(self) ==
    IF self.start = self.end
    THEN [it |-> self, ret |-> None]
    ELSE IF size_of = 0
         THEN [it  |-> [self EXCEPT !.start = WrapAdd(self.start, 1)],
               ret |-> zst_read(self.start)]
         ELSE LET old_ptr == self.start
              IN  [it  |-> [self EXCEPT !.start = WrapAdd(self.start, size_of)],
                   ret |-> ptr_read(old_ptr)]

(* a size_hint that reports the address distance without dividing *)
size_hint_in_bytes(self) ==
    LET len == WrapSub(self.end, self.start)
    IN  <<len, len>>

(* <RawValIter as Iterator>::size_hint: (len, Some(len)) as <<len, len>>   *)
RawValIter_size_hint(self) ==
    LET elem_size == size_of
        len == WrapSub(self.end, self.start)
                   \div (IF elem_size = 0 THEN 1 ELSE elem_size)
    IN  <<len, len>>

(* a next_back that reads at the old end, before the decrement *)
next_back_reads_old_end(self) ==
    IF self.start = self.end
    THEN [it |-> self, ret |-> None]
    ELSE IF size_of = 0
         THEN [it  |-> [self EXCEPT !.end = WrapSub(self.end, 1)],
               ret |-> zst_read(self.end)]
         ELSE [it  |-> [self EXCEPT !.end = WrapSub(self.end, size_of)],
               ret |-> ptr_read(self.end)]

(* a next_back without the start == end test *)
next_back_unguarded(self) ==
    IF size_of = 0
    THEN LET e == WrapSub(self.end, 1)
         IN  [it  |-> [self EXCEPT !.end = e],
              ret |-> zst_read(e)]
    ELSE LET e == WrapSub(self.end, size_of)
         IN  [it  |-> [self EXCEPT !.end = e],
              ret |-> ptr_read(e)]

(* a next_back that decrements end but reads at start, as next does *)
next_back_reads_start(self) ==
    IF self.start = self.end
    THEN [it |-> self, ret |-> None]
    ELSE IF size_of = 0
         THEN [it  |-> [self EXCEPT !.end = WrapSub(self.end, 1)],
               ret |-> zst_read(self.start)]
         ELSE [it  |-> [self EXCEPT !.end = WrapSub(self.end, size_of)],
               ret |-> ptr_read(self.start)]

(* a next_back that decrements end by one address unit for every T *)
next_back_steps_one_byte(self) ==
    IF self.start = self.end
    THEN [it |-> self, ret |-> None]
    ELSE IF size_of = 0
         THEN LET e == WrapSub(self.end, 1)
              IN  [it  |-> [self EXCEPT !.end = e],
                   ret |-> zst_read(e)]
         ELSE LET e == WrapSub(self.end, 1)
              IN  [it  |-> [self EXCEPT !.end = e],
                   ret |-> ptr_read(e)]

(* <RawValIter as DoubleEndedIterator>::next_back *)
RawValIter_next_back(self) ==
    IF self.start = self.end
    THEN [it |-> self, ret |-> None]
    ELSE IF size_of = 0
         THEN LET e == WrapSub(self.end, 1)
              IN  [it  |-> [self EXCEPT !.end = e],
                   ret |-> zst_read(e)]
         ELSE LET e == WrapSub(self.end, size_of)
              IN  [it  |-> [self EXCEPT !.end = e],
                   ret |-> ptr_read(e)]

(* ---- ownership ledgers ---- *)

(* a draw moved the element of slot r.pos out of the storage *)
MovedOut(r) == IF r.some THEN Clear(inBuf, r.pos) ELSE inBuf

(* the read behind a draw hit a slot with no live element in it *)
ReadIsBad(r) == r.some /\ (r.pos \notin DOMAIN inBuf \/ ~inBuf[r.pos])

Draw(r, dir, by) == [val |-> r.val, pos |-> r.pos, dir |-> dir, by |-> by]

(* ---- the program ---- *)

Init ==
    /\ phase = "vec"
    /\ \E size \in ElemSizes, len \in 0 .. MaxLen, spare \in 0 .. SpareCap,
          a \in Allocators, b \in BaseAddrs :
         LET cap == len + spare
             ptr == IF size = 0 \/ cap = 0 THEN dangling(size) ELSE b
         IN  /\ (size = 0 \/ cap = 0) => b = CHOOSE x \in BaseAddrs : TRUE
             /\ vec = [ptr |-> ptr, len |-> len, cap |-> cap, size |-> size,
                       alloc |-> a,
                       elems |-> [i \in 0 .. (cap - 1) |->
                                    IF i >= len THEN NoValue
                                    ELSE IF size = 0 THEN ZstValue
                                    ELSE ElemValue(i)]]
             /\ inBuf = [i \in 0 .. (cap - 1) |-> i < len]
             /\ held = [i \in 0 .. (cap - 1) |-> 0]
             /\ drops = [i \in 0 .. (cap - 1) |-> 0]
    /\ iter = [start |-> 0, end |-> 0]
    /\ allocator = "none"
    /\ yielded = <<>>
    /\ lastOp = "none"
    /\ lastRet = None
    /\ hint = NoHint
    /\ released = <<>>
    /\ vecTeardown = FALSE
    /\ iterTeardown = FALSE
    /\ callerDrops = 0
    /\ cleanupDraws = 0
    /\ badRead = FALSE

(* the Vector's own teardown: destroys its len elements, then releases    *)
(* the storage with its own allocator                                      *)
VectorTeardownDrops == [i \in DOMAIN drops |->
                          IF i < vec.len THEN drops[i] + 1 ELSE drops[i]]

VectorDrop ==
    /\ phase = "vec"
    /\ phase' = "done"
    /\ drops' = VectorTeardownDrops
    /\ inBuf' = [i \in DOMAIN inBuf |-> FALSE]
    /\ released' = Append(released, vec.alloc)
    /\ vecTeardown' = TRUE
    /\ UNCHANGED <<vec, iter, allocator, held, yielded, lastOp, lastRet, hint,
                   iterTeardown, callerDrops, cleanupDraws, badRead>>

(* a conversion that lets self go out of scope instead of forgetting it:  *)
(* the Vector's teardown runs as into_iter returns                         *)
into_iter_without_forget ==
    /\ phase = "vec"
    /\ phase' = "iter"
    /\ iter' = new(vec.ptr, vec.len)
    /\ allocator' = "Global"
    /\ drops' = VectorTeardownDrops
    /\ inBuf' = [i \in DOMAIN inBuf |-> FALSE]
    /\ released' = Append(released, vec.alloc)
    /\ vecTeardown' = TRUE
    /\ UNCHANGED <<vec, held, yielded, lastOp, lastRet, hint,
                   iterTeardown, callerDrops, cleanupDraws, badRead>>

(* a conversion whose cursor spans the capacity instead of the length *)
into_iter_over_capacity ==
    /\ phase = "vec"
    /\ phase' = "iter"
    /\ iter' = new(vec.ptr, vec.cap)
    /\ allocator' = "Global"
    /\ UNCHANGED <<vec, inBuf, held, drops, yielded, lastOp, lastRet, hint, released,
                   vecTeardown, iterTeardown, callerDrops, cleanupDraws,
                   badRead>>

(* <Vector<T, A> as IntoIterator>::into_iter: the cursor over the slice,  *)
(* a bitwise copy of self.raw, mem::forget(self), allocator: Global        *)
into_iter ==
    /\ phase = "vec"
    /\ phase' = "iter"
    /\ iter' = new(vec.ptr, vec.len)
    /\ allocator' = "Global"
    /\ UNCHANGED <<vec, inBuf, held, drops, yielded, lastOp, lastRet, hint, released,
                   vecTeardown, iterTeardown, callerDrops, cleanupDraws,
                   badRead>>

(* the caller receives the Option a draw returned *)
CallerDraw(res, dir) ==
    /\ iter' = res.it
    /\ lastOp' = IF dir = "F" THEN "next" ELSE "next_back"
    /\ lastRet' = res.ret
    /\ inBuf' = MovedOut(res.ret)
    /\ held' = IF res.ret.some THEN Bump(held, res.ret.pos) ELSE held
    /\ yielded' = IF res.ret.some
                  THEN Append(yielded, Draw(res.ret, dir, "caller"))
                  ELSE yielded
    /\ badRead' = (badRead \/ ReadIsBad(res.ret))
    /\ hint' = NoHint
    /\ UNCHANGED <<phase, vec, allocator, drops, released, vecTeardown,
                   iterTeardown, callerDrops, cleanupDraws>>

(* <IntoIter as Iterator>::next *)
next ==
    /\ phase = "iter"
    /\ CallerDraw(RawValIter_next(iter), "F")

(* <IntoIter as DoubleEndedIterator>::next_back *)
next_back ==
    /\ phase = "iter"
    /\ CallerDraw(RawValIter_next_back(iter), "B")

(* <IntoIter as Iterator>::size_hint *)
size_hint ==
    /\ phase = "iter"
    /\ hint' = RawValIter_size_hint(iter)
    /\ UNCHANGED <<phase, vec, iter, allocator, inBuf, held, drops, yielded,
                   lastOp, lastRet, released, vecTeardown, iterTeardown, callerDrops,
                   cleanupDraws, badRead>>

(* the caller disposes of one value it drew: its destructor runs *)
Dispose ==
    /\ phase \in {"iter", "done"}
    /\ \E i \in DOMAIN held :
         /\ held[i] > 0
         /\ held' = [held EXCEPT ![i] = @ - 1]
         /\ drops' = Bump(drops, i)
    /\ callerDrops' = callerDrops + 1
    /\ UNCHANGED <<phase, vec, iter, allocator, inBuf, yielded, lastOp, lastRet, hint,
                   released, vecTeardown, iterTeardown, cleanupDraws, badRead>>

(* a teardown that releases the storage before the cleanup pass *)
drop_enter_release_first ==
    /\ phase = "iter"
    /\ phase' = "cleanup"
    /\ iterTeardown' = TRUE
    /\ released' = Append(released, allocator)
    /\ hint' = NoHint
    /\ UNCHANGED <<vec, iter, allocator, inBuf, held, drops, yielded, lastOp, lastRet,
                   vecTeardown, callerDrops, cleanupDraws, badRead>>

(* IntoIter::drop is entered: the iterator is discarded *)
drop_enter ==
    /\ phase = "iter"
    /\ phase' = "cleanup"
    /\ iterTeardown' = TRUE
    /\ hint' = NoHint
    /\ UNCHANGED <<vec, iter, allocator, inBuf, held, drops, yielded, lastOp, lastRet,
                   released, vecTeardown, callerDrops, cleanupDraws, badRead>>

(* a cleanup pass that draws nothing and goes straight to the release *)
drop_cleanup_skipped ==
    /\ phase = "cleanup"
    /\ phase' = "release"
    /\ lastOp' = "next"
    /\ lastRet' = None
    /\ UNCHANGED <<vec, iter, allocator, inBuf, held, drops, yielded, hint,
                   released, vecTeardown, iterTeardown, callerDrops,
                   cleanupDraws, badRead>>

(* a cleanup that draws once (`if let`) instead of looping to None *)
drop_cleanup_once ==
    /\ phase = "cleanup"
    /\ LET res == RawValIter_next(iter)
       IN  /\ iter' = res.it
           /\ lastOp' = "next"
           /\ lastRet' = res.ret
           /\ inBuf' = MovedOut(res.ret)
           /\ badRead' = (badRead \/ ReadIsBad(res.ret))
           /\ IF res.ret.some
              THEN /\ drops' = Bump(drops, res.ret.pos)
                   /\ yielded' = Append(yielded, Draw(res.ret, "F", "cleanup"))
                   /\ cleanupDraws' = cleanupDraws + 1
              ELSE UNCHANGED <<drops, yielded, cleanupDraws>>
           /\ phase' = "release"
    /\ UNCHANGED <<vec, allocator, held, hint, released, vecTeardown,
                   iterTeardown, callerDrops>>

(* one iteration of `for _ in &mut *self {}`: a next call whose value is  *)
(* destroyed at once, or the None that ends the loop                       *)
drop_cleanup ==
    /\ phase = "cleanup"
    /\ LET res == RawValIter_next(iter)
       IN  /\ iter' = res.it
           /\ lastOp' = "next"
           /\ lastRet' = res.ret
           /\ inBuf' = MovedOut(res.ret)
           /\ badRead' = (badRead \/ ReadIsBad(res.ret))
           /\ IF res.ret.some
              THEN /\ drops' = Bump(drops, res.ret.pos)
                   /\ yielded' = Append(yielded, Draw(res.ret, "F", "cleanup"))
                   /\ cleanupDraws' = cleanupDraws + 1
                   /\ phase' = "cleanup"
              ELSE /\ UNCHANGED <<drops, yielded, cleanupDraws>>
                   /\ phase' = "release"
    /\ UNCHANGED <<vec, allocator, held, hint, released, vecTeardown,
                   iterTeardown, callerDrops>>

(* a teardown after which the _buf field frees the storage once more *)
drop_release_twice ==
    /\ phase = "release"
    /\ phase' = "done"
    /\ released' = Append(Append(released, allocator), allocator)
    /\ UNCHANGED <<vec, iter, allocator, inBuf, held, drops, yielded, lastOp, lastRet,
                   hint, vecTeardown, iterTeardown, callerDrops, cleanupDraws,
                   badRead>>

(* self._buf.deallocate_no_drop(&self.allocator): frees the storage and   *)
(* runs no element destructor                                              *)
drop_release ==
    /\ phase = "release"
    /\ phase' = "done"
    /\ released' = Append(released, allocator)
    /\ UNCHANGED <<vec, iter, allocator, inBuf, held, drops, yielded, lastOp, lastRet,
                   hint, vecTeardown, iterTeardown, callerDrops, cleanupDraws,
                   badRead>>

Next ==
    \/ VectorDrop
    \/ into_iter
    \/ next
    \/ next_back
    \/ size_hint
    \/ Dispose
    \/ drop_enter
    \/ drop_cleanup
    \/ drop_release

Spec == Init /\ [][Next]_vars

(* IntoIter::drop is synchronous: once entered, the cleanup loop and the  *)
(* release run to completion                                               *)
FairSpec == Spec /\ WF_vars(drop_cleanup) /\ WF_vars(drop_release)

(* ---- vocabulary of the properties ---- *)

RECURSIVE SumUpTo(_, _)
SumUpTo(f, n) == IF n < 0 THEN 0 ELSE f[n] + SumUpTo(f, n - 1)

(* COUNTER: destructor runs observed in total *)
TotalDrops == SumUpTo(drops, vec.cap - 1)

IterExists == phase \in {"iter", "cleanup", "release"}
Finalized == phase = "done" /\ iterTeardown
NoneHeld == \A i \in DOMAIN held : held[i] = 0
Draws == 1 .. Len(yielded)
CallerDrawCount == Cardinality({k \in Draws : yielded[k].by = "caller"})
DrawsOf(d) == {k \in Draws : yielded[k].dir = d}
AllDir(d) == \A k \in Draws : yielded[k].dir = d
Exhausted == iter.start = iter.end
Remaining == vec.len - Len(yielded)

(* the slots not yet yielded before the k-th draw *)
UnyieldedBefore(k) ==
    (0 .. (vec.len - 1)) \ {yielded[j].pos : j \in 1 .. (k - 1)}

(* C1: once the iterator has been dropped and the caller has disposed of   *)
(* every value it drew, each of the N elements has been destroyed exactly  *)
(* once: k by the caller, N-k by the cleanup pass, N in total; no element  *)
(* is ever destroyed twice.                                                *)
C1_ExactlyNDestructions ==
    /\ \A i \in DOMAIN drops : drops[i] <= 1
    /\ (Finalized /\ NoneHeld) =>
         /\ \A i \in DOMAIN drops : drops[i] = (IF i < vec.len THEN 1 ELSE 0)
         /\ TotalDrops = vec.len
         /\ callerDrops = CallerDrawCount
         /\ cleanupDraws = vec.len - CallerDrawCount
         /\ callerDrops + cleanupDraws = vec.len

C1_Witness ==
    /\ Finalized /\ NoneHeld
    /\ vec.len >= 3
    /\ TotalDrops = vec.len
    /\ callerDrops = 2
    /\ DrawsOf("B") # {}
    /\ cleanupDraws = vec.len - 2

(* C2: the iterator's teardown releases the storage once, only when no     *)
(* live element is left in it, and the release destroys nothing.           *)
C2_ReleaseState ==
    iterTeardown =>
        /\ Len(released) <= 1
        /\ phase = "done" => Len(released) = 1
        /\ Len(released) = 1 => \A i \in DOMAIN inBuf : ~inBuf[i]

C2_ReleaseStep ==
    (phase = "release" /\ phase' = "done") =>
        /\ Len(released') = Len(released) + 1
        /\ drops' = drops
        /\ held' = held
        /\ inBuf' = inBuf

C2_ReleaseAfterCleanup == [] C2_ReleaseState /\ [][C2_ReleaseStep]_vars

C2_Witness ==
    /\ Finalized
    /\ Len(released) = 1
    /\ cleanupDraws >= 2
    /\ CallerDrawCount >= 1

(* C3: once into_iter has consumed the Vector its own teardown never runs: *)
(* at the end exactly one of the two teardowns has run, the storage has    *)
(* been released once and no element was destroyed twice or left live.     *)
C3_ExactlyOneTeardown ==
    /\ (IterExists \/ iterTeardown) => ~vecTeardown
    /\ ~(vecTeardown /\ iterTeardown)
    /\ phase = "done" =>
         /\ vecTeardown # iterTeardown
         /\ Len(released) = 1
         /\ \A i \in DOMAIN inBuf : ~inBuf[i]
         /\ \A i \in DOMAIN drops : drops[i] + held[i] = (IF i < vec.len THEN 1 ELSE 0)

C3_Witness ==
    /\ phase = "done"
    /\ iterTeardown /\ ~vecTeardown
    /\ vec.len >= 2
    /\ Len(released) = 1

(* C4: the allocator the IntoIter holds, and releases the storage with, is *)
(* the allocator of the source Vector.                                     *)
C4_SameAllocator ==
    /\ IterExists => allocator = vec.alloc
    /\ iterTeardown => \A j \in 1 .. Len(released) : released[j] = vec.alloc

(* C5: draining forward yields the N elements in original order: the i-th  *)
(* yield is the element of index i, and next returns None after exactly N. *)
C5_ForwardOrder ==
    AllDir("F") =>
        /\ \A k \in Draws : /\ yielded[k].pos = k - 1
                            /\ yielded[k].pos < vec.len
                            /\ yielded[k].val = vec.elems[k - 1]
        /\ (lastOp = "next" /\ ~lastRet.some) => Len(yielded) = vec.len

C5_Witness ==
    /\ phase = "iter"
    /\ vec.size > 0
    /\ vec.len >= 3
    /\ AllDir("F")
    /\ CallerDrawCount = vec.len
    /\ lastOp = "next" /\ ~lastRet.some

(* C6: draining backward yields the N elements in reverse order: the i-th  *)
(* yield is the element of index N-1-i, and next_back returns None after   *)
(* exactly N.                                                              *)
C6_BackwardOrder ==
    AllDir("B") =>
        /\ \A k \in Draws : /\ yielded[k].pos = vec.len - k
                            /\ yielded[k].pos >= 0
                            /\ yielded[k].val = vec.elems[vec.len - k]
        /\ (lastOp = "next_back" /\ ~lastRet.some) => Len(yielded) = vec.len

C6_Witness ==
    /\ phase = "iter"
    /\ vec.size > 0
    /\ vec.len >= 3
    /\ AllDir("B")
    /\ CallerDrawCount = vec.len
    /\ lastOp = "next_back" /\ ~lastRet.some

(* C7: under any interleaving of next and next_back at most N draws        *)
(* succeed, the cursor is exhausted exactly after the N-th, no index is    *)
(* yielded twice or skipped, a forward draw takes the lowest unyielded    *)
(* index and a backward draw the highest.                                  *)
C7_Interleaving ==
    /\ Len(yielded) <= vec.len
    /\ \A j, k \in Draws : j # k => yielded[j].pos # yielded[k].pos
    /\ \A k \in Draws :
         /\ yielded[k].pos \in UnyieldedBefore(k)
         /\ \A u \in UnyieldedBefore(k) :
              IF yielded[k].dir = "F" THEN yielded[k].pos <= u
                                      ELSE yielded[k].pos >= u
    /\ IterExists =>
         /\ Exhausted <=> Len(yielded) = vec.len
         /\ Exhausted => {yielded[k].pos : k \in Draws} = 0 .. (vec.len - 1)
    /\ (lastOp # "none" /\ ~lastRet.some) => Len(yielded) = vec.len

C7_Witness ==
    /\ phase = "iter"
    /\ Exhausted
    /\ vec.len >= 3
    /\ Cardinality(DrawsOf("F")) >= 1
    /\ Cardinality(DrawsOf("B")) >= 2
    /\ yielded[1].dir = "B" /\ yielded[2].dir = "F"
    /\ ~lastRet.some /\ lastOp # "none"

(* C8: size_hint returns (len, Some(len)) where len is N before any draw,  *)
(* N-k after k successful draws, and 0 exactly when start == end.          *)
C8_SizeHintExact ==
    /\ IterExists =>
         /\ RawValIter_size_hint(iter) = <<Remaining, Remaining>>
         /\ RawValIter_size_hint(iter)[1] = 0 <=> Exhausted
    /\ hint # NoHint =>
         /\ hint[1] = hint[2]
         /\ hint = <<Remaining, Remaining>>
         /\ hint[1] = 0 <=> Exhausted

C8_Witness ==
    /\ phase = "iter"
    /\ vec.size > 1
    /\ vec.len >= 3
    /\ hint = <<1, 1>>
    /\ DrawsOf("F") # {} /\ DrawsOf("B") # {}

(* C9: for a zero-width type the cursor over N elements has end = start+N  *)
(* as integers, drains in exactly N successful draws in any mix, and       *)
(* size_hint goes down by one per successful draw, to 0 after the N-th.    *)
C9_ZstState ==
    (vec.size = 0 /\ IterExists) =>
        /\ iter.end = iter.start + Remaining
        /\ Len(yielded) = 0 => iter.end = vec.ptr + vec.len
        /\ RawValIter_size_hint(iter) = <<Remaining, Remaining>>
        /\ Len(yielded) <= vec.len
        /\ Exhausted <=> Len(yielded) = vec.len

C9_ZstStep ==
    (vec.size = 0 /\ IterExists /\ Len(yielded') = Len(yielded) + 1) =>
        RawValIter_size_hint(iter')[1] = RawValIter_size_hint(iter)[1] - 1

C9_ZeroWidthDrain == [] C9_ZstState /\ [][C9_ZstStep]_vars

C9_Witness ==
    /\ vec.size = 0
    /\ phase = "iter"
    /\ vec.len >= 3
    /\ Len(yielded) = vec.len
    /\ DrawsOf("F") # {} /\ DrawsOf("B") # {}
    /\ hint = <<0, 0>>

(* C10: start <= end as addresses in every state of the cursor, also       *)
(* after calls made once it is exhausted.                                  *)
C10_StartLeEnd ==
    (IterExists \/ Finalized) => iter.start <= iter.end

C10_Witness ==
    /\ phase = "iter"
    /\ vec.len >= 1
    /\ Exhausted
    /\ lastOp = "next_back" /\ ~lastRet.some
    /\ iter.start > vec.ptr

(* the address unit of one element: max(size_of::<T>(), 1) *)
Unit == IF vec.size = 0 THEN 1 ELSE vec.size

(* the address the slot i of the original span stands at *)
AddrOf(i) == vec.ptr + i * Unit

InRange(i) == iter.start <= AddrOf(i) /\ AddrOf(i) < iter.end

(* C11: every slot whose address lies in [start, end) holds a live element *)
(* the storage still owns; every slot of the original span outside it has  *)
(* had its element moved out exactly once: held by the caller or already   *)
(* destroyed. No draw ever reads a slot without a live element.            *)
C11_RangeIsLive ==
    (IterExists \/ Finalized) =>
        /\ ~badRead
        /\ \A i \in 0 .. (vec.len - 1) :
             /\ inBuf[i] <=> InRange(i)
             /\ InRange(i) => (held[i] = 0 /\ drops[i] = 0)
             /\ ~InRange(i) => (held[i] + drops[i] = 1
                                /\ \E k \in Draws : yielded[k].pos = i)

C11_Witness ==
    /\ phase = "iter"
    /\ vec.len >= 3
    /\ vec.size > 1
    /\ InRange(1) /\ inBuf[1]
    /\ ~InRange(0) /\ drops[0] = 1
    /\ ~InRange(2) /\ held[2] = 1

(* C12: the iterator can be dropped in every state; the drop runs the      *)
(* cleanup and then the release exactly once and reaches Finalized, after  *)
(* which nothing is yielded, destroyed by the iterator or released.        *)
C12_DropAlwaysPossible == phase = "iter" => ENABLED drop_enter

C12_FinalizedState ==
    Finalized =>
        /\ Len(released) = 1
        /\ Exhausted
        /\ \A i \in DOMAIN inBuf : ~inBuf[i]
        /\ cleanupDraws + CallerDrawCount = vec.len

C12_FinalizedIsTerminal ==
    Finalized =>
        /\ Finalized'
        /\ iter' = iter
        /\ yielded' = yielded
        /\ released' = released
        /\ inBuf' = inBuf
        /\ cleanupDraws' = cleanupDraws
        /\ callerDrops' = callerDrops => drops' = drops

C12_DropFromAnyState ==
    /\ [] C12_DropAlwaysPossible
    /\ [] C12_FinalizedState
    /\ [][C12_FinalizedIsTerminal]_vars
    /\ (iterTeardown ~> Finalized)

C12_Witness ==
    /\ Finalized
    /\ vec.len >= 2
    /\ cleanupDraws = 0
    /\ CallerDrawCount = vec.len
    /\ Len(released) = 1

C12_WitnessUntouched ==
    /\ Finalized
    /\ vec.len >= 2
    /\ cleanupDraws = vec.len
    /\ Len(released) = 1

CleanupDrawsOf == {k \in Draws : yielded[k].by = "cleanup"}

(* the elements that were left when the drop was entered *)
LeftAtDrop == vec.len - CallerDrawCount

(* the smallest element of a non-empty set of slots *)
Lowest(S) == CHOOSE m \in S : \A u \in S : m <= u

(* C13: the cleanup pass of drop terminates: from r remaining elements it  *)
(* makes exactly r successful next calls, never next_back, each destroying *)
(* the lowest remaining element, and has start == end before the release.  *)
C13_CleanupState ==
    /\ Cardinality(CleanupDrawsOf) = cleanupDraws
    /\ \A k \in CleanupDrawsOf :
         /\ yielded[k].dir = "F"
         /\ yielded[k].pos = Lowest(UnyieldedBefore(k))
         /\ drops[yielded[k].pos] = 1
         /\ held[yielded[k].pos] = 0
    /\ phase = "cleanup" =>
         cleanupDraws + RawValIter_size_hint(iter)[1] = LeftAtDrop
    /\ (phase = "release" \/ Finalized) =>
         /\ cleanupDraws = LeftAtDrop
         /\ Exhausted
    /\ phase = "release" => released = <<>>

C13_CleanupStep ==
    phase = "cleanup" =>
        /\ lastOp' = "next"
        /\ iter'.end = iter.end
        /\ released' = released
        /\ phase' = "release" <=> Exhausted

C13_CleanupTerminates ==
    /\ [] C13_CleanupState
    /\ [][C13_CleanupStep]_vars
    /\ (phase = "cleanup" ~> phase = "release")

C13_Witness ==
    /\ phase = "release"
    /\ Exhausted
    /\ cleanupDraws >= 2
    /\ CallerDrawCount >= 1
    /\ vec.size > 1

(* C14: a successful next moves start up by one element unit, leaves end   *)
(* alone and yields the element that stood at the old start; a successful  *)
(* next_back moves end down by one unit first, leaves start alone and      *)
(* yields the element at the new end.                                      *)
C14_DrawStep ==
    Len(yielded') = Len(yielded) + 1 =>
        LET d == yielded'[Len(yielded')]
        IN  /\ lastRet' = Some(d.val, d.pos)
            /\ d.pos \in 0 .. (vec.len - 1)
            /\ d.val = vec.elems[d.pos]
            /\ IF d.dir = "F"
               THEN /\ lastOp' = "next"
                    /\ iter'.start = iter.start + Unit
                    /\ iter'.end = iter.end
                    /\ AddrOf(d.pos) = iter.start
               ELSE /\ lastOp' = "next_back"
                    /\ iter'.end = iter.end - Unit
                    /\ iter'.start = iter.start
                    /\ AddrOf(d.pos) = iter'.end

C14_FrameOfDraws == [][C14_DrawStep]_vars

C14_Witness ==
    /\ phase = "iter"
    /\ vec.size > 1
    /\ vec.len >= 3
    /\ Len(yielded) = 2
    /\ yielded[1].dir = "F" /\ yielded[2].dir = "B"
    /\ lastOp = "next_back" /\ lastRet.some
    /\ iter.start = vec.ptr + Unit
    /\ iter.end = vec.ptr + (vec.len - 1) * Unit

(* C15: on an exhausted cursor next and next_back return None and leave    *)
(* start and end alone: the cursor stays exhausted, nothing is read or     *)
(* destroyed by it, and size_hint stays (0, Some(0)).                      *)
C15_ExhaustedState ==
    (IterExists /\ Exhausted) =>
        /\ RawValIter_size_hint(iter) = <<0, 0>>
        /\ RawValIter_next(iter) = [it |-> iter, ret |-> None]
        /\ RawValIter_next_back(iter) = [it |-> iter, ret |-> None]
        /\ hint # NoHint => hint = <<0, 0>>

C15_ExhaustedStep ==
    (IterExists /\ Exhausted) =>
        /\ iter' = iter
        /\ yielded' = yielded
        /\ inBuf' = inBuf
        /\ badRead' = badRead
        /\ cleanupDraws' = cleanupDraws
        /\ callerDrops' = callerDrops => (drops' = drops /\ held' = held)
        /\ (lastOp' # lastOp \/ lastRet' # lastRet) => ~lastRet'.some

C15_ExhaustedStays == [] C15_ExhaustedState /\ [][C15_ExhaustedStep]_vars

C15_Witness ==
    /\ phase = "iter"
    /\ Exhausted
    /\ vec.len >= 2
    /\ lastOp = "next" /\ ~lastRet.some
    /\ hint = <<0, 0>>
    /\ DrawsOf("B") # {}

(* C16: over a sequence of length 0, of zero or nonzero element size, the  *)
(* cursor has end == start: the first next and next_back return None,      *)
(* size_hint is (0, Some(0)), and the drop destroys nothing and releases   *)
(* the storage exactly once.                                               *)
C16_EmptySequence ==
    (vec.len = 0 /\ (IterExists \/ Finalized)) =>
        /\ iter = [start |-> vec.ptr, end |-> vec.ptr]
        /\ yielded = <<>>
        /\ lastOp # "none" => ~lastRet.some
        /\ RawValIter_size_hint(iter) = <<0, 0>>
        /\ hint # NoHint => hint = <<0, 0>>
        /\ TotalDrops = 0
        /\ cleanupDraws = 0
        /\ phase = "done" => Len(released) = 1
        /\ phase # "done" => released = <<>>

C16_Witness ==
    /\ Finalized
    /\ vec.len = 0
    /\ vec.size > 0
    /\ vec.cap > 0
    /\ Len(released) = 1
    /\ TotalDrops = 0

(* C17: the cursor spans the length at conversion, not the capacity: no    *)
(* draw of the caller or of the cleanup reads or destroys a slot at index  *)
(* >= N, and the release leaves those slots alone too.                     *)
C17_LengthNotCapacity ==
    /\ ~badRead
    /\ \A k \in Draws : yielded[k].pos \in 0 .. (vec.len - 1)
    /\ \A i \in Slots : i >= vec.len =>
         (drops[i] = 0 /\ held[i] = 0 /\ ~inBuf[i])
    /\ (IterExists \/ Finalized) =>
         /\ iter.end <= vec.ptr + vec.len * Unit
         /\ Len(yielded) = 0 => iter.end = vec.ptr + vec.len * Unit

C17_Witness ==
    /\ Finalized
    /\ vec.cap > vec.len
    /\ vec.len >= 2
    /\ vec.size > 0
    /\ cleanupDraws >= 1
    /\ DrawsOf("B") # {}
    /\ drops[vec.len] = 0

(* ---- the index-pair cursor of the design notes ---- *)

Index_new(len) == [start_index |-> 0, end_index |-> len]

Index_next(c) ==
    IF c.start_index = c.end_index
    THEN [it |-> c, some |-> FALSE, pos |-> NoValue]
    ELSE [it |-> [c EXCEPT !.start_index = @ + 1],
          some |-> TRUE, pos |-> c.start_index]

Index_next_back(c) ==
    IF c.start_index = c.end_index
    THEN [it |-> c, some |-> FALSE, pos |-> NoValue]
    ELSE [it |-> [c EXCEPT !.end_index = @ - 1],
          some |-> TRUE, pos |-> c.end_index - 1]

Index_size_hint(c) == <<c.end_index - c.start_index, c.end_index - c.start_index>>

(* the index pair an address pair stands for *)
IndexOf(it) == [start_index |-> (it.start - vec.ptr) \div Unit,
                end_index   |-> (it.end - vec.ptr) \div Unit]

(* the address cursor result r and the index cursor result x agree *)
SameResult(r, x) ==
    /\ IndexOf(r.it) = x.it
    /\ r.ret.some = x.some
    /\ r.ret.pos = x.pos

(* C18: the address pair is an index pair in disguise: for every element   *)
(* size, zero included, start = base + start_index * unit and end = base + *)
(* end_index * unit, where the index pair depends on the calls made only;  *)
(* next, next_back and size_hint return what the index cursor returns.     *)
C18_IndexCursor ==
    IterExists =>
        LET c == IndexOf(iter)
        IN  /\ iter.start = vec.ptr + c.start_index * Unit
            /\ iter.end = vec.ptr + c.end_index * Unit
            /\ c.start_index = Cardinality(DrawsOf("F"))
            /\ c.end_index = vec.len - Cardinality(DrawsOf("B"))
            /\ Len(yielded) = 0 => c = Index_new(vec.len)
            /\ SameResult(RawValIter_next(iter), Index_next(c))
            /\ SameResult(RawValIter_next_back(iter), Index_next_back(c))
            /\ RawValIter_size_hint(iter) = Index_size_hint(c)
            /\ hint # NoHint => hint = Index_size_hint(c)

C18_Witness ==
    /\ phase = "iter"
    /\ vec.size > 1
    /\ vec.len >= 3
    /\ IndexOf(iter) = [start_index |-> 1, end_index |-> vec.len - 1]
    /\ hint = <<vec.len - 2, vec.len - 2>>
    /\ lastOp = "next" /\ lastRet.some

C18_WitnessZeroWidth ==
    /\ phase = "iter"
    /\ vec.size = 0
    /\ vec.len >= 3
    /\ IndexOf(iter) = [start_index |-> 1, end_index |-> vec.len - 1]
    /\ hint = <<vec.len - 2, vec.len - 2>>
    /\ lastOp = "next" /\ lastRet.some

(* C19: the unsigned arithmetic of size_hint loses nothing: end - start is *)
(* never negative and, for a nonzero element size, a multiple of it, so    *)
(* the division gives the exact count; a zero-width next_back decrements   *)
(* end only when end > start and never takes it below the base address.    *)
C19_NoUnderflowState ==
    (IterExists \/ Finalized) =>
        /\ iter.end - iter.start >= 0
        /\ vec.size > 0 => (iter.end - iter.start) % vec.size = 0
        /\ RawValIter_size_hint(iter)[1] * Unit = iter.end - iter.start
        /\ iter.start >= vec.ptr
        /\ iter.end >= vec.ptr
        /\ iter.end < AddrSpace

C19_ZstDecrement ==
    (IterExists /\ vec.size = 0 /\ iter'.end # iter.end) =>
        /\ iter.end > iter.start
        /\ iter'.end = iter.end - 1
        /\ iter'.end >= vec.ptr

C19_ExactArithmetic == [] C19_NoUnderflowState /\ [][C19_ZstDecrement]_vars

C19_Witness ==
    /\ phase = "iter"
    /\ vec.size = 0
    /\ vec.len >= 2
    /\ AllDir("B")
    /\ Len(yielded) = vec.len
    /\ iter.end = vec.ptr
    /\ lastOp = "next_back" /\ lastRet.some

====
